---- MODULE Spec2Model ----
(***************************************************************************)
(* Model of the task store of cli-task-manager: the Task entity, the       *)
(* in-memory TaskService (an array of tasks) and the persisted TaskService *)
(* over TaskRepository (a TypeORM repository on a SQLite table), together  *)
(* with the due-date range computed by FilterHandler.handleFilterByDueDate.*)
(*                                                                         *)
(* impl selects which of the two TaskService implementations is running.   *)
(* tasks is the stored collection in insertion (rowid / array) order.      *)
(* ret records the last service call: its name, its argument and the value *)
(* it returned. ui is the state of the search screen: the SearchHandler in  *)
(* use, and during a search session the tasks read at its start, the search *)
(* index, the search term, whether a character was typed in the session,    *)
(* and the tasks displayed.                                                 *)
(***************************************************************************)
EXTENDS Integers, Sequences, FiniteSets, TLC

VARIABLES impl, capacity, tasks, nextId, assigned, now, today, ret, ui

vars == <<impl, capacity, tasks, nextId, assigned, now, today, ret, ui>>

-----------------------------------------------------------------------------
(* Bounds of the model *)

\* tasks held at once by the store exercised with create/update/delete
MaxTasks == 2
\* tasks held at once by the store exercised with queries
MaxQueryTasks == 3
\* tasks ever created in one run
MaxCreated == 3
\* due dates are the days 0..MaxDate
MaxDate == 2
\* the storage clock runs from 0 to MaxClock
MaxClock == 2
\* number of fields one patch supplies
MaxPatchFields == 2
\* keypress listeners that sessions ended by an error leave on stdin
MaxListeners == 2
\* menus that wait for a menu opened from them to return
MaxDepth == 2
\* tasks the store holds at a time under the menu loop
MaxMenuTasks == 1

-----------------------------------------------------------------------------
(* Values *)

Priority == {"Low", "Medium", "High"}

Names == {"Buy milk", "Pay rent"}

Categories == {"Work", "Home"}

DueDates == 0..MaxDate

\* the values of the storage clock
Timestamps == 0..MaxClock

\* id of an entity that has not been saved yet (id is undefined)
NoId == -1

Impls == {"mem", "db"}

Range(s) == {s[i] : i \in DOMAIN s}

StoredIds == {t.id : t \in Range(tasks)}

IndexOf(rows, id) == CHOOSE i \in DOMAIN rows : rows[i].id = id

Reverse(s) == [i \in 1..Len(s) |-> s[Len(s) + 1 - i]]

-----------------------------------------------------------------------------
(* Strings whose letters matter are sequences of characters *)

UpperCase == <<"A", "B", "C", "D", "E", "F", "G", "H", "I", "J", "K", "L", "M",
               "N", "O", "P", "Q", "R", "S", "T", "U", "V", "W", "X", "Y", "Z">>

LowerCase == <<"a", "b", "c", "d", "e", "f", "g", "h", "i", "j", "k", "l", "m",
               "n", "o", "p", "q", "r", "s", "t", "u", "v", "w", "x", "y", "z">>

LowerChar(c) ==
    IF \E i \in DOMAIN UpperCase : UpperCase[i] = c
    THEN LowerCase[CHOOSE i \in DOMAIN UpperCase : UpperCase[i] = c]
    ELSE c

\* String.prototype.toLowerCase
toLowerCase(s) == [i \in DOMAIN s |-> LowerChar(s[i])]

\* the categories of the tasks whose category is filtered on: two spellings of
\* one word and another word
FilterCategories ==
    {<<"W", "o", "r", "k">>, <<"w", "o", "r", "k">>, <<"H", "o", "m", "e">>}

-----------------------------------------------------------------------------
(* Task entity *)

\* models/Task.ts: the constructor assigns a fresh uuid
MemTask(name, priority, category, dueDate) ==
    [id |-> nextId, serial |-> nextId, name |-> name, priority |-> priority,
     category |-> category, dueDate |-> dueDate, isCompleted |-> FALSE]

\* Task with the name and the category arguments exchanged
Task_Swapped(name, priority, category, dueDate) ==
    [id |-> NoId, serial |-> NoId, name |-> category, priority |-> priority,
     category |-> name, dueDate |-> dueDate, isCompleted |-> FALSE,
     createdAt |-> NoId, updatedAt |-> NoId]

\* entities/Task.ts: the constructor leaves id, createdAt and updatedAt undefined
Task(name, priority, category, dueDate) ==
    [id |-> NoId, serial |-> NoId, name |-> name, priority |-> priority,
     category |-> category, dueDate |-> dueDate, isCompleted |-> FALSE,
     createdAt |-> NoId, updatedAt |-> NoId]

-----------------------------------------------------------------------------
(* TaskRepository over the TypeORM repository *)

DataColumns == {"name", "priority", "category", "dueDate", "isCompleted",
                "createdAt", "updatedAt"}

ChangedColumns(row, e) == {c \in DataColumns : row[c] # e[c]}

\* save that writes the row, and refreshes updatedAt, also when no column differs
save_AlwaysWrite(rows, e) ==
    IF e.id # NoId /\ \E i \in DOMAIN rows : rows[i].id = e.id
    THEN LET i == IndexOf(rows, e.id)
         IN [rows EXCEPT ![i] =
                [id |-> rows[i].id, serial |-> rows[i].serial,
                 name |-> e.name, priority |-> e.priority,
                 category |-> e.category, dueDate |-> e.dueDate,
                 isCompleted |-> e.isCompleted,
                 createdAt |-> e.createdAt, updatedAt |-> now]]
    ELSE Append(rows,
            [e EXCEPT !.id = IF e.id = NoId THEN nextId ELSE e.id,
                      !.serial = nextId,
                      !.createdAt = IF e.createdAt = NoId THEN now ELSE e.createdAt,
                      !.updatedAt = IF e.updatedAt = NoId THEN now ELSE e.updatedAt])

\* Repository.save: update the row with the entity's primary key when there is
\* one (only when a column differs; updatedAt is refreshed unless it is itself
\* among the written columns), insert a new row otherwise.
save(rows, e) ==
    IF e.id # NoId /\ \E i \in DOMAIN rows : rows[i].id = e.id
    THEN LET i == IndexOf(rows, e.id)
             row == rows[i]
             diff == ChangedColumns(row, e)
             Col(c) == IF c \in diff THEN e[c] ELSE row[c]
         IN IF diff = {}
            THEN rows
            ELSE [rows EXCEPT ![i] =
                    [id |-> row.id, serial |-> row.serial,
                     name |-> Col("name"), priority |-> Col("priority"),
                     category |-> Col("category"), dueDate |-> Col("dueDate"),
                     isCompleted |-> Col("isCompleted"),
                     createdAt |-> Col("createdAt"),
                     updatedAt |-> IF "updatedAt" \in diff THEN e.updatedAt ELSE now]]
    ELSE Append(rows,
            [e EXCEPT !.id = IF e.id = NoId THEN nextId ELSE e.id,
                      !.serial = nextId,
                      !.createdAt = IF e.createdAt = NoId THEN now ELSE e.createdAt,
                      !.updatedAt = IF e.updatedAt = NoId THEN now ELSE e.updatedAt])

Inserts(rows, e) == ~(e.id # NoId /\ \E i \in DOMAIN rows : rows[i].id = e.id)

create(rows, task) == save(rows, task)

update(rows, task) == save(rows, task)

findById(rows, id) == {t \in Range(rows) : t.id = id}

delete(rows, id) == SelectSeq(rows, LAMBDA t : t.id # id)

\* a driver that does not report the number of deleted rows
affected_Unreported(rows, id) == 0

affected(rows, id) == Cardinality({i \in DOMAIN rows : rows[i].id = id})

\* find({order: {dueDate: ASC | DESC}}): SELECT ... ORDER BY dueDate. SQL fixes
\* the order of rows with different keys only; rows with equal keys come in any
\* order.
Orderings(n) == {f \in [1..n -> 1..n] : \A i, j \in 1..n : f[i] = f[j] => i = j}

\* ORDER BY dueDate ASC whatever the direction asked for
findAllSortedByDueDate_AscOnly(rows, ascending) ==
    {r \in {[i \in 1..Len(rows) |-> rows[f[i]]] : f \in Orderings(Len(rows))} :
        \A i, j \in 1..Len(r) : i < j => r[i].dueDate <= r[j].dueDate}

findAllSortedByDueDate(rows, ascending) ==
    {r \in {[i \in 1..Len(rows) |-> rows[f[i]]] : f \in Orderings(Len(rows))} :
        \A i, j \in 1..Len(r) :
            i < j => IF ascending THEN r[i].dueDate <= r[j].dueDate
                                  ELSE r[i].dueDate >= r[j].dueDate}

\* find / findBy without an order: SELECT without ORDER BY returns the selected
\* rows in an order SQL does not fix
AnyOrder(rows) ==
    {[i \in 1..Len(rows) |-> rows[f[i]]] : f \in Orderings(Len(rows))}

findByCategory(rows, category) ==
    AnyOrder(SelectSeq(rows, LAMBDA t : t.category = category))

\* a completion filter that returns the completed rows whatever is asked for
findByCompletion_CompletedOnly(rows, isCompleted) ==
    AnyOrder(SelectSeq(rows, LAMBDA t : t.isCompleted))

\* findByCompletion: the rows whose isCompleted equals the argument
findByCompletion(rows, isCompleted) ==
    AnyOrder(SelectSeq(rows, LAMBDA t : t.isCompleted = isCompleted))

\* SELECT DISTINCT task.category: each value of the column once, in any order
getUniqueCategoriesRows(rows) ==
    {r \in UNION {[1..n -> {t.category : t \in Range(rows)}] : n \in 0..Len(rows)} :
        /\ Range(r) = {t.category : t \in Range(rows)}
        /\ \A i, j \in DOMAIN r : r[i] = r[j] => i = j}

\* a range that includes its end (BETWEEN start AND end)
findByDueDateRange_Between(rows, start, end) ==
    findAllSortedByDueDate(
        SelectSeq(rows, LAMBDA t : start <= t.dueDate /\ t.dueDate <= end), TRUE)

\* findByDueDateRange: inclusive start, exclusive end, ascending by due date
findByDueDateRange(rows, start, end) ==
    findAllSortedByDueDate(
        SelectSeq(rows, LAMBDA t : start <= t.dueDate /\ t.dueDate < end), TRUE)

-----------------------------------------------------------------------------
(* In-memory TaskService helpers *)

\* a comparator that ignores the direction
compare_Unsigned(a, b, ascending) == a.dueDate - b.dueDate

\* the comparator handed to Array.prototype.sort
compare(a, b, ascending) ==
    LET comparison == a.dueDate - b.dueDate
    IN IF ascending THEN comparison ELSE -comparison

\* Array.prototype.sort is a stable sort: an element goes before the first
\* element that compares greater than it.
InsertSorted(sorted, x, ascending) ==
    LET after == {i \in DOMAIN sorted : compare(sorted[i], x, ascending) > 0}
        k == IF after = {} THEN Len(sorted) + 1
             ELSE CHOOSE i \in after : \A j \in after : i <= j
    IN SubSeq(sorted, 1, k - 1) \o <<x>> \o SubSeq(sorted, k, Len(sorted))

RECURSIVE sort(_, _)
sort(s, ascending) ==
    IF s = << >> THEN << >>
    ELSE InsertSorted(sort(SubSeq(s, 1, Len(s) - 1), ascending), s[Len(s)], ascending)

\* a spread that keeps every element of the array
NewSet_KeepAll(s) == s

\* [...new Set(s)]: the distinct elements of s in the order they first occur
NewSet(s) ==
    LET F[i \in 0..Len(s)] ==
            IF i = 0 THEN << >>
            ELSE IF \A j \in 1..(i - 1) : s[j] # s[i] THEN Append(F[i - 1], s[i])
                 ELSE F[i - 1]
    IN F[Len(s)]

-----------------------------------------------------------------------------
(* Partial<Task>: each field is either absent ({}) or supplied ({v}) *)

Opt(S) == {{}} \cup {{v} : v \in S}

PatchFields == {"id", "name", "priority", "category", "dueDate", "isCompleted",
                "createdAt", "updatedAt"}

Supplied(updates) == {f \in PatchFields : updates[f] # {}}

\* a caller can name the ids generated so far
KnownIds == 1..(nextId - 1)

\* the patches that take the id from I, the name from N, the priority from P,
\* the category from C, the due date from D and the timestamps from T
Patches(I, N, P, C, D, T) ==
    {u \in [id : Opt(I), name : Opt(N), priority : Opt(P),
            category : Opt(C), dueDate : Opt(D), isCompleted : Opt(BOOLEAN),
            createdAt : Opt(T), updatedAt : Opt(T)] :
        Cardinality(Supplied(u)) <= MaxPatchFields}

\* the patch that supplies no field
NoUpdates ==
    [id |-> {}, name |-> {}, priority |-> {}, category |-> {}, dueDate |-> {},
     isCompleted |-> {}, createdAt |-> {}, updatedAt |-> {}]

Val(s) == CHOOSE v \in s : TRUE

\* Object.assign(task, updates)
ObjectAssign(task, updates) ==
    LET F(f) == IF updates[f] # {} THEN Val(updates[f]) ELSE task[f]
    IN [task EXCEPT !.id = F("id"), !.name = F("name"), !.priority = F("priority"),
                    !.category = F("category"), !.dueDate = F("dueDate"),
                    !.isCompleted = F("isCompleted"),
                    !.createdAt = F("createdAt"), !.updatedAt = F("updatedAt")]

-----------------------------------------------------------------------------
(* History: the task (serial) each id was first assigned to *)

Record(rows) ==
    [i \in DOMAIN assigned \cup {t.id : t \in Range(rows)} |->
        IF i \in DOMAIN assigned THEN assigned[i]
        ELSE (CHOOSE t \in Range(rows) : t.id = i).serial]

\* the operation returned: no error was raised to the caller
NoError == "none"

\* rep: the call repeats the previous call (same operation, same argument)
Call(op, arg, val) ==
    [op |-> op, arg |-> arg, val |-> val,
     rep |-> ret.op = op /\ ret.arg = arg, error |-> NoError]

-----------------------------------------------------------------------------
(* TaskService operations *)

\* the user interface after construction: no search session is open, stdin is
\* in line mode, the main menu is due and no table was displayed yet
\* (lastDisplayedTasks and table hold an array as a one-element set and null,
\* or no table, as the empty set)
Idle(handler) ==
    [handler |-> handler, active |-> FALSE, allTasks |-> << >>,
     fuse |-> << >>, searchTerm |-> << >>, typed |-> FALSE, shown |-> << >>,
     rawMode |-> FALSE, listeners |-> 0,
     menu |-> "main", lastDisplayedTasks |-> {}, table |-> {},
     item |-> "none", isSubMenu |-> FALSE, script |-> << >>, op |-> {},
     calls |-> << >>, pending |-> 0, stack |-> << >>]

InitStore(cap) ==
    /\ impl \in Impls
    /\ capacity = cap
    /\ tasks = << >>
    /\ nextId = 1
    /\ assigned = << >>
    /\ now = 0
    /\ today = [year |-> 2024, month |-> 0, date |-> 1]
    /\ ret = [op |-> "none", arg |-> NoId, val |-> FALSE, rep |-> FALSE,
             error |-> NoError]
    /\ ui = Idle("fuse")

Init == InitStore(MaxTasks)

addTask(name, priority, category, dueDate) ==
    /\ Len(tasks) < capacity
    /\ nextId <= MaxCreated
    /\ tasks' = IF impl = "mem"
                THEN Append(tasks, MemTask(name, priority, category, dueDate))
                ELSE create(tasks, Task(name, priority, category, dueDate))
    /\ nextId' = nextId + 1
    /\ assigned' = Record(tasks')
    /\ ret' = Call("addTask", <<name, priority, category, dueDate>>,
                   {tasks'[Len(tasks')]})
    /\ UNCHANGED <<ui, impl, capacity, now, today>>

markTaskAsComplete(taskId) ==
    /\ IF findById(tasks, taskId) # {}
       THEN LET task == [Val(findById(tasks, taskId)) EXCEPT !.isCompleted = TRUE]
            IN /\ tasks' = IF impl = "mem"
                           THEN [tasks EXCEPT ![IndexOf(tasks, taskId)] = task]
                           ELSE update(tasks, task)
               /\ ret' = Call("markTaskAsComplete", taskId, TRUE)
       ELSE /\ tasks' = tasks
            /\ ret' = Call("markTaskAsComplete", taskId, FALSE)
    /\ UNCHANGED <<ui, impl, capacity, nextId, assigned, now, today>>

removeTask(taskId) ==
    /\ tasks' = IF impl = "mem"
                THEN SelectSeq(tasks, LAMBDA t : t.id # taskId)
                ELSE delete(tasks, taskId)
    /\ ret' = Call("removeTask", taskId,
                   IF impl = "mem" THEN Len(tasks') # Len(tasks)
                   ELSE affected(tasks, taskId) > 0)
    /\ UNCHANGED <<ui, impl, capacity, nextId, assigned, now, today>>

updateTask(taskId, updates) ==
    /\ impl = "db"
    /\ IF findById(tasks, taskId) # {}
       THEN LET task == ObjectAssign(Val(findById(tasks, taskId)), updates)
            IN /\ Inserts(tasks, task) => Len(tasks) < capacity /\ nextId <= MaxCreated
               /\ tasks' = update(tasks, task)
               /\ nextId' = IF Inserts(tasks, task) THEN nextId + 1 ELSE nextId
               /\ assigned' = Record(tasks')
               /\ ret' = Call("updateTask", taskId, findById(tasks', task.id))
       ELSE /\ UNCHANGED <<tasks, nextId, assigned>>
            /\ ret' = Call("updateTask", taskId, {})
    /\ UNCHANGED <<ui, impl, capacity, now, today>>

\* the results a call of getTasksSortedByDueDate can return
SortResults(ascending) ==
    IF impl = "mem" THEN {sort(tasks, ascending)}
    ELSE findAllSortedByDueDate(tasks, ascending)

getTasksSortedByDueDate(ascending) ==
    /\ \E r \in SortResults(ascending) :
          ret' = Call("getTasksSortedByDueDate", ascending, r)
    /\ UNCHANGED <<ui, impl, capacity, tasks, nextId, assigned, now, today>>

getTasksByDueDateRange(start, end) ==
    /\ impl = "db"
    /\ \E r \in findByDueDateRange(tasks, start, end) :
          ret' = Call("getTasksByDueDateRange", <<start, end>>, r)
    /\ UNCHANGED <<ui, impl, capacity, tasks, nextId, assigned, now, today>>

\* the results a call of getTasksByCategory can return
CategoryResults(category) ==
    IF impl = "mem"
    THEN {SelectSeq(tasks, LAMBDA task :
                       toLowerCase(task.category) = toLowerCase(category))}
    ELSE findByCategory(tasks, category)

getTasksByCategory(category) ==
    /\ \E r \in CategoryResults(category) :
          ret' = Call("getTasksByCategory", category, r)
    /\ UNCHANGED <<ui, impl, capacity, tasks, nextId, assigned, now, today>>

\* the results a call of getUniqueCategories can return
UniqueCategoriesResults ==
    IF impl = "mem"
    THEN {NewSet([i \in DOMAIN tasks |-> tasks[i].category])}
    ELSE getUniqueCategoriesRows(tasks)

getUniqueCategories ==
    /\ \E r \in UniqueCategoriesResults :
          ret' = Call("getUniqueCategories", NoId, r)
    /\ UNCHANGED <<ui, impl, capacity, tasks, nextId, assigned, now, today>>

getTasksByCompletion(isCompleted) ==
    /\ impl = "db"
    /\ \E r \in findByCompletion(tasks, isCompleted) :
          ret' = Call("getTasksByCompletion", isCompleted, r)
    /\ UNCHANGED <<ui, impl, capacity, tasks, nextId, assigned, now, today>>

getAllTasks ==
    /\ \E r \in (IF impl = "mem" THEN {tasks} ELSE AnyOrder(tasks)) :
          ret' = Call("getAllTasks", NoId, r)
    /\ UNCHANGED <<ui, impl, capacity, tasks, nextId, assigned, now, today>>

\* a lookup that raises when no row has the id
getTaskById_OrFail(taskId) ==
    /\ impl = "db"
    /\ ret' = [Call("getTaskById", taskId, findById(tasks, taskId))
                 EXCEPT !.error = IF findById(tasks, taskId) = {}
                                  THEN "EntityNotFoundError" ELSE NoError]
    /\ UNCHANGED <<ui, impl, capacity, tasks, nextId, assigned, now, today>>

\* the task is returned as a set: empty (null) when no row has the id
getTaskById(taskId) ==
    /\ impl = "db"
    /\ ret' = Call("getTaskById", taskId, findById(tasks, taskId))
    /\ UNCHANGED <<ui, impl, capacity, tasks, nextId, assigned, now, today>>

\* the errors with which a call of the repository can be rejected
StorageErrors == {"SQLITE_BUSY", "SQLITE_IOERR"}

\* the calls of Repository<Task> an operation awaits, in order, when none of
\* them fails
StorageCalls(op, arg) ==
    CASE op = "addTask" -> <<"save">>
      [] op = "getAllTasks" -> <<"find">>
      [] op \in {"markTaskAsComplete", "updateTask"} ->
            IF findById(tasks, arg) # {} THEN <<"findOneBy", "save">>
            ELSE <<"findOneBy">>
      [] op = "removeTask" -> <<"delete">>
      [] op = "getTaskById" -> <<"findOneBy">>
      [] op \in {"getTasksByPriority", "getTasksByCategory"} -> <<"findBy">>
      [] op = "getTasksSortedByDueDate" -> <<"find">>
      [] op = "getUniqueCategories" -> <<"getRawMany">>

CoreOps ==
    {"addTask", "getAllTasks", "markTaskAsComplete", "updateTask",
     "removeTask", "getTaskById", "getTasksByPriority", "getTasksByCategory",
     "getTasksSortedByDueDate", "getUniqueCategories"}

\* an operation whose awaited call is rejected converts the error into the
\* result false
Rejected_Defaulted(op, arg, k, error) ==
    [op |-> op, arg |-> arg, val |-> FALSE,
     rep |-> ret.op = op /\ ret.arg = arg, error |-> NoError,
     issued |-> SubSeq(StorageCalls(op, arg), 1, k),
     failure |-> [call |-> k, error |-> error]]

\* an operation whose awaited call is rejected: no operation of TaskService
\* or TaskRepository catches, so the operation is rejected with the same error
\* and issues no further call.  failure: the call that failed and its error
Rejected(op, arg, k, error) ==
    [op |-> op, arg |-> arg,
     rep |-> ret.op = op /\ ret.arg = arg, error |-> error,
     issued |-> SubSeq(StorageCalls(op, arg), 1, k),
     failure |-> [call |-> k, error |-> error]]

\* the k-th storage call of the operation fails; the calls before it are
\* reads, and a failed statement writes nothing
fails(op, arg, k, error) ==
    /\ impl = "db"
    /\ k \in DOMAIN StorageCalls(op, arg)
    /\ ret' = Rejected(op, arg, k, error)
    /\ UNCHANGED <<ui, impl, capacity, tasks, nextId, assigned, now, today>>

\* the storage clock advances
Tick ==
    /\ now < MaxClock
    /\ now' = now + 1
    /\ UNCHANGED <<ui, impl, capacity, tasks, nextId, assigned, today, ret>>

TaskIds == 1..MaxCreated

-----------------------------------------------------------------------------
(* Search: the two SearchHandler versions, one filtering by substring, one   *)
(* searching a Fuse index                                                   *)

SearchHandlers == {"substring", "fuse"}

\* the names of the tasks that are searched
SearchNames ==
    {<<"B", "u", "y", " ", "m", "i", "l", "k">>,
     <<"P", "a", "y", " ", "r", "e", "n", "t">>}

Work == <<"W", "o", "r", "k">>

\* the string value of a member of the Priority enum
PriorityText(priority) ==
    CASE priority = "Low" -> <<"L", "o", "w">>
      [] priority = "Medium" -> <<"M", "e", "d", "i", "u", "m">>
      [] priority = "High" -> <<"H", "i", "g", "h">>

\* task.isCompleted ? "completed" : "pending"
StatusText(isCompleted) ==
    IF isCompleted THEN <<"c", "o", "m", "p", "l", "e", "t", "e", "d">>
    ELSE <<"p", "e", "n", "d", "i", "n", "g">>

\* String.prototype.includes
includes(text, term) ==
    \E k \in 0..(Len(text) - Len(term)) : SubSeq(text, k + 1, k + Len(term)) = term

\* SearchHandler.filterTasks, substring version
filterTasksSubstring(searchTerm, allTasks) ==
    LET searchTermLower == toLowerCase(searchTerm)
    IN SelectSeq(allTasks, LAMBDA task :
          \/ includes(toLowerCase(task.name), searchTermLower)
          \/ includes(toLowerCase(task.category), searchTermLower)
          \/ includes(StatusText(task.isCompleted), searchTermLower)
          \/ includes(toLowerCase(PriorityText(task.priority)), searchTermLower))

\* Fuse options: threshold 0.4 (in tenths) and minMatchCharLength
thresholdTenths == 4

minMatchCharLength == 2

Min3(a, b, c) == IF a <= b /\ a <= c THEN a ELSE IF b <= c THEN b ELSE c

\* One more character c of the pattern: from the errors prev of the pattern so
\* far against the text ending at each position, the errors of the pattern with
\* c (a substitution, a character of the pattern skipped, or a character of the
\* text skipped cost one error each). cur is the part of the new row built.
RECURSIVE BitapRow(_, _, _, _)
BitapRow(prev, c, text, cur) ==
    IF Len(cur) = Len(text) + 1 THEN cur
    ELSE LET j == Len(cur)
         IN BitapRow(prev, c, text,
                Append(cur, Min3(prev[j] + (IF text[j] = c THEN 0 ELSE 1),
                                 prev[j + 1] + 1,
                                 cur[j] + 1)))

RECURSIVE BitapRows(_, _, _)
BitapRows(text, pattern, i) ==
    IF i = 0 THEN [j \in 1..(Len(text) + 1) |-> 0]
    ELSE BitapRow(BitapRows(text, pattern, i - 1), pattern[i], text, <<i>>)

\* Bitap: the least number of errors with which the pattern matches somewhere
\* in the text (ignoreLocation: every position counts the same)
bitapErrors(text, pattern) ==
    LET row == BitapRows(text, pattern, Len(pattern))
    IN CHOOSE e \in Range(row) : \A f \in Range(row) : e <= f

\* convertMaskToIndices: the text has a run of minMatchCharLength characters
\* that occur in the pattern
hasMatchIndices(text, pattern) ==
    \E k \in 0..(Len(text) - minMatchCharLength) :
        \A i \in 1..minMatchCharLength : text[k + i] \in Range(pattern)

\* BitapSearch.searchIn: text and pattern are lower-cased; a match is the exact
\* string, or a match with errors / pattern length <= threshold that has match
\* indices
searchIn(value, query) ==
    LET text == toLowerCase(value)
        pattern == toLowerCase(query)
        errors == bitapErrors(text, pattern)
    IN \/ pattern = text
       \/ /\ errors < Len(pattern)
          /\ errors * 10 <= thresholdTenths * Len(pattern)
          /\ hasMatchIndices(text, pattern)

\* new Fuse(tasks, options): the documents and, for each, the text of the keys
\* name, category and priority
initializeFuseSearch(allTasks) ==
    [docs |-> allTasks,
     records |-> [i \in DOMAIN allTasks |->
                    [name |-> allTasks[i].name, category |-> allTasks[i].category,
                     priority |-> PriorityText(allTasks[i].priority)]]]

FuseKeys == {"name", "category", "priority"}

\* fuse.search(searchTerm): the documents with a key that matches; the ranking
\* by score is not modelled, the results come in any order
fuseSearch(fuse, searchTerm) ==
    LET hit == {i \in DOMAIN fuse.records :
                   \E key \in FuseKeys : searchIn(fuse.records[i][key], searchTerm)}
    IN {r \in UNION {[1..n -> hit] : n \in {Cardinality(hit)}} :
           \A i, j \in DOMAIN r : r[i] = r[j] => i = j}

\* a filterTasks that hands the empty search term to the index as well
filterTasks_AlwaysSearch(searchTerm, allTasks) ==
    IF ui.handler = "substring" THEN {filterTasksSubstring(searchTerm, allTasks)}
    ELSE {[i \in DOMAIN r |-> ui.fuse.docs[r[i]]] : r \in fuseSearch(ui.fuse, searchTerm)}

\* the results filterTasks can return
filterTasks(searchTerm, allTasks) ==
    IF ui.handler = "substring" THEN {filterTasksSubstring(searchTerm, allTasks)}
    ELSE IF searchTerm = << >> THEN {allTasks}
    ELSE {[i \in DOMAIN r |-> ui.fuse.docs[r[i]]] : r \in fuseSearch(ui.fuse, searchTerm)}

findAll(rows) == AnyOrder(rows)

\* the queries that are typed, character by character
Queries ==
    {<<"m", "i", "l", "k">>, <<"m", "l", "i", "k">>, <<"b">>,
     StatusText(TRUE), StatusText(FALSE)}

IsPrefix(s, t) == Len(s) <= Len(t) /\ SubSeq(t, 1, Len(s)) = s

Key(name, ctrl, sequence) == [name |-> name, ctrl |-> ctrl, sequence |-> sequence]

\* the keys: the characters of the queries Q, backspace, a cursor key, a
\* character that is no letter, digit or space, and Ctrl+C
Keys(Q) ==
    {Key(c, FALSE, c) : c \in UNION {Range(q) : q \in Q}}
    \cup {Key("backspace", FALSE, "DEL"), Key("up", FALSE, "up"),
          Key("!", FALSE, "!"), Key("c", TRUE, "c")}

\* the key is pressed when the search term is term: a character is typed only
\* when it continues a query of Q
Pressed(Q, term, key) ==
    (key.sequence \in UNION {Range(q) : q \in Q} /\ ~key.ctrl) =>
        \E q \in Q : IsPrefix(Append(term, key.sequence), q)

isSpecialKey(key) ==
    key.name \in {"up", "down", "left", "right", "home", "end", "pageup", "pagedown"}

Digits == {"0", "1", "2", "3", "4", "5", "6", "7", "8", "9"}

\* slice(0, -1) on backspace; a letter, digit or space is appended
updateSearchTerm(currentTerm, key) ==
    IF key.name = "backspace"
    THEN SubSeq(currentTerm, 1, Len(currentTerm) - 1)
    ELSE IF key.sequence \in Range(LowerCase) \cup Range(UpperCase) \cup Digits \cup {" "}
         THEN Append(currentTerm, key.sequence)
         ELSE currentTerm

\* a session that keeps the tasks and the index of the session before it
handleSearch_Stale ==
    /\ ~ui.active
    /\ \E allTasks \in findAll(tasks) :
          /\ ret' = Call("getAllTasks", NoId, allTasks)
          /\ IF Len(allTasks) = 0
             THEN UNCHANGED ui
             ELSE ui' = [ui EXCEPT !.active = TRUE,
                                   !.allTasks = IF ui.fuse = << >> THEN allTasks
                                                ELSE ui.fuse.docs,
                                   !.fuse = IF ui.fuse = << >>
                                            THEN initializeFuseSearch(allTasks)
                                            ELSE ui.fuse,
                                   !.searchTerm = << >>, !.typed = FALSE,
                                   !.shown = IF ui.fuse = << >> THEN allTasks
                                             ELSE ui.fuse.docs,
                                   !.rawMode = TRUE,
                                   !.listeners = ui.listeners + 1,
                                   !.menu = "session"]
    /\ UNCHANGED <<impl, capacity, tasks, nextId, assigned, now, today>>

\* SearchHandler.handleSearch up to the wait for keys: all tasks are read, the
\* index is built from them and they are displayed, a keypress listener is
\* added to stdin and stdin is switched to raw mode
handleSearch ==
    /\ ~ui.active
    /\ \E allTasks \in findAll(tasks) :
          /\ ret' = Call("getAllTasks", NoId, allTasks)
          /\ IF Len(allTasks) = 0
             THEN UNCHANGED ui
             ELSE ui' = [ui EXCEPT !.active = TRUE,
                                   !.allTasks = allTasks,
                                   !.fuse = IF ui.handler = "fuse"
                                            THEN initializeFuseSearch(allTasks)
                                            ELSE ui.fuse,
                                   !.searchTerm = << >>, !.typed = FALSE,
                                   !.shown = allTasks,
                                   !.rawMode = TRUE,
                                   !.listeners = ui.listeners + 1,
                                   !.menu = "session"]
    /\ UNCHANGED <<impl, capacity, tasks, nextId, assigned, now, today>>

\* the keypress listener of handleSearch: Ctrl+C closes the session (and
\* cleanup runs), a special key is ignored, any other key updates the search
\* term and displays the tasks of the session filtered by it
keypress(key) ==
    /\ ui.active
    /\ IF key.ctrl /\ key.name = "c"
       THEN ui' = [ui EXCEPT !.active = FALSE, !.allTasks = << >>,
                             !.searchTerm = << >>, !.typed = FALSE,
                             !.shown = << >>,
                             !.rawMode = FALSE, !.listeners = 0,
                             !.menu = "main", !.item = "none"]
       ELSE IF isSpecialKey(key)
            THEN UNCHANGED ui
            ELSE LET searchTerm == updateSearchTerm(ui.searchTerm, key)
                 IN \E filteredTasks \in filterTasks(searchTerm, ui.allTasks) :
                       ui' = [ui EXCEPT !.searchTerm = searchTerm,
                                        !.typed = ui.typed \/ searchTerm # << >>,
                                        !.shown = filteredTasks]
    /\ UNCHANGED <<impl, capacity, tasks, nextId, assigned, now, today, ret>>

\* the catch of handleSearch, for an error raised in the try block once the
\* session waits for keys: the error is logged and handleSearch returns to the
\* menu; cleanup is not called
handleSearchCatch ==
    /\ ui.active
    /\ ui.listeners < MaxListeners
    /\ ui' = [ui EXCEPT !.active = FALSE, !.allTasks = << >>,
                        !.searchTerm = << >>, !.typed = FALSE, !.shown = << >>,
                        !.menu = "main", !.item = "none"]
    /\ UNCHANGED <<impl, capacity, tasks, nextId, assigned, now, today, ret>>

-----------------------------------------------------------------------------
(* SpecSearch: search sessions over the persisted store, with either         *)
(* SearchHandler; tasks are added and completed, also while a session is    *)
(* open                                                                     *)

InitSearch ==
    /\ impl = "db"
    /\ capacity = MaxTasks
    /\ tasks = << >>
    /\ nextId = 1
    /\ assigned = << >>
    /\ now = 0
    /\ today = [year |-> 2024, month |-> 0, date |-> 1]
    /\ ret = [op |-> "none", arg |-> NoId, val |-> FALSE, rep |-> FALSE,
             error |-> NoError]
    /\ ui \in {Idle(h) : h \in SearchHandlers}

NextSearch ==
    \/ \E n \in SearchNames : addTask(n, "Medium", Work, 0)
    \/ \E id \in TaskIds : markTaskAsComplete(id)
    \/ handleSearch
    \/ \E key \in Keys(Queries) : Pressed(Queries, ui.searchTerm, key) /\ keypress(key)

SpecSearch == InitSearch /\ [][NextSearch]_vars

-----------------------------------------------------------------------------
(* SpecSession: SpecSearch with one short query, typed and deleted again *)

SessionQueries == {<<"m", "i", "l">>}

NextSession ==
    \/ \E n \in SearchNames : addTask(n, "Medium", Work, 0)
    \/ \E id \in TaskIds : markTaskAsComplete(id)
    \/ handleSearch
    \/ \E key \in Keys(SessionQueries) :
          Pressed(SessionQueries, ui.searchTerm, key) /\ keypress(key)

SpecSession == InitSearch /\ [][NextSession]_vars

-----------------------------------------------------------------------------
(* SpecRaw: search sessions that end by Ctrl+C or by an error *)

RawQueries == {<<"m", "i">>}

NextRaw ==
    \/ \E n \in SearchNames : addTask(n, "Medium", Work, 0)
    \/ \E id \in TaskIds : removeTask(id)
    \/ handleSearch
    \/ \E key \in Keys(RawQueries) :
          Pressed(RawQueries, ui.searchTerm, key) /\ keypress(key)
    \/ handleSearchCatch

SpecRaw == InitSearch /\ [][NextRaw]_vars

-----------------------------------------------------------------------------
(* ConsoleUI: one action per menu selection, from the selection to the next  *)
(* menu that is displayed                                                   *)

\* displayTableAndMenu: the user interface once the menu is displayed
displayTableAndMenu(tasksToShow, menu, showTable) ==
    LET last == IF tasksToShow # {} THEN tasksToShow ELSE ui.lastDisplayedTasks
    IN [ui EXCEPT !.lastDisplayedTasks = last,
                  !.menu = menu,
                  !.table = IF ~showTable THEN {}
                            ELSE IF last # {} /\ Val(last) # << >> THEN last
                            ELSE {<< >>}]

showMainMenu == displayTableAndMenu({}, "main", FALSE)

ConsoleUI_showViewOptions ==
    /\ ui.menu = "main"
    /\ ui' = displayTableAndMenu(ui.lastDisplayedTasks, "view", TRUE)
    /\ ret' = Call("showViewOptions", NoId, ui'.table)
    /\ UNCHANGED <<impl, capacity, tasks, nextId, assigned, now, today>>

ConsoleUI_back ==
    /\ ui.menu = "view"
    /\ ui' = showMainMenu
    /\ ret' = Call("showMainMenu", NoId, ui'.table)
    /\ UNCHANGED <<impl, capacity, tasks, nextId, assigned, now, today>>

ConsoleUI_addTask(name, priority, category, dueDate) ==
    /\ ui.menu = "main"
    /\ Len(tasks) < capacity
    /\ nextId <= MaxCreated
    /\ tasks' = create(tasks, Task(name, priority, category, dueDate))
    /\ nextId' = nextId + 1
    /\ assigned' = Record(tasks')
    /\ \E allTasks \in findAll(tasks') :
          ui' = displayTableAndMenu({allTasks}, "main", FALSE)
    /\ ret' = Call("addTask", <<name, priority, category, dueDate>>,
                   {tasks'[Len(tasks')]})
    /\ UNCHANGED <<impl, capacity, now, today>>

ConsoleUI_displayTasks ==
    /\ \E allTasks \in findAll(tasks) :
          /\ ui' = IF Len(allTasks) = 0
                   THEN [displayTableAndMenu({<< >>}, "main", TRUE)
                           EXCEPT !.lastDisplayedTasks = {<< >>}]
                   ELSE displayTableAndMenu({allTasks}, "main", TRUE)
          /\ ret' = Call("displayTasks", NoId, allTasks)
    /\ UNCHANGED <<impl, capacity, tasks, nextId, assigned, now, today>>

ConsoleUI_sortByDueDate(order) ==
    /\ ui.menu = "view"
    /\ \E sorted \in findAllSortedByDueDate(tasks, order) :
          /\ ui' = displayTableAndMenu({sorted}, "view", TRUE)
          /\ ret' = Call("sortByDueDate", order, sorted)
    /\ UNCHANGED <<impl, capacity, tasks, nextId, assigned, now, today>>

\* the task is selected among the pending ones
ConsoleUI_markTaskComplete(taskId) ==
    /\ ui.menu = "main"
    /\ \E t \in Range(tasks) : t.id = taskId /\ ~t.isCompleted
    /\ tasks' = update(tasks, [Val(findById(tasks, taskId)) EXCEPT !.isCompleted = TRUE])
    /\ ui' = showMainMenu
    /\ ret' = Call("markTaskComplete", taskId, TRUE)
    /\ UNCHANGED <<impl, capacity, nextId, assigned, now, today>>

ConsoleUI_removeTask(taskId, confirm) ==
    /\ ui.menu = "main"
    /\ taskId \in StoredIds
    /\ tasks' = IF confirm THEN delete(tasks, taskId) ELSE tasks
    /\ ui' = showMainMenu
    /\ ret' = Call("removeTask", taskId, confirm /\ affected(tasks, taskId) > 0)
    /\ UNCHANGED <<impl, capacity, nextId, assigned, now, today>>

ConsoleUI_editTask(taskId, field, value) ==
    /\ ui.menu = "main"
    /\ taskId \in StoredIds
    /\ LET updates == [NoUpdates EXCEPT ![field] = {value}]
           task == ObjectAssign(Val(findById(tasks, taskId)), updates)
       IN /\ tasks' = update(tasks, task)
          /\ ret' = Call("editTask", <<taskId, field, value>>,
                         findById(tasks', taskId))
    /\ \E updatedTasks \in findAll(tasks') :
          ui' = displayTableAndMenu({updatedTasks}, "main", TRUE)
    /\ UNCHANGED <<impl, capacity, nextId, assigned, now, today>>

\* Exit with the confirmation declined
ConsoleUI_exit ==
    /\ ui.menu = "main"
    /\ ui' = showMainMenu
    /\ ret' = Call("exit", FALSE, FALSE)
    /\ UNCHANGED <<impl, capacity, tasks, nextId, assigned, now, today>>

-----------------------------------------------------------------------------
(* SpecConsole: the menus of ConsoleUI over the persisted store *)

NextConsole ==
    \/ \E d \in {0, MaxDate} : ConsoleUI_addTask("Buy milk", "Medium", "Work", d)
    \/ ConsoleUI_displayTasks
    \/ ConsoleUI_showViewOptions
    \/ ConsoleUI_back
    \/ \E order \in BOOLEAN : ConsoleUI_sortByDueDate(order)
    \/ \E id \in TaskIds : ConsoleUI_markTaskComplete(id)
    \/ \E id \in TaskIds, confirm \in BOOLEAN : ConsoleUI_removeTask(id, confirm)
    \/ \E id \in TaskIds : ConsoleUI_editTask(id, "priority", "High")
    \/ ConsoleUI_exit

SpecConsole == InitSearch /\ [][NextConsole]_vars

-----------------------------------------------------------------------------
(* MenuHandler: the menu loop with the handlers of TaskHandler, FilterHandler *)
(* and SearchHandler, one step per prompt answered and per repository call   *)
(* completed.  ui.menu: the prompt that is displayed ("main", "view"), or     *)
(* "handler" while the handler of ui.item runs, "session" while a search      *)
(* session waits for keys, "ended" when showMainMenu has returned to its      *)
(* first caller, "exited" after process.exit.  ui.script: what the handler    *)
(* still awaits; ui.op and ui.calls: the operation in progress and its        *)
(* repository calls that have not completed; ui.pending: repository calls in  *)
(* flight; ui.stack: the items whose handler is a menu that has not returned  *)
(* (a displayMenu that only waits to return to its caller is not kept)        *)

mainMenuItems ==
    {"add", "viewAll", "search", "filter", "edit", "complete", "remove", "exit"}

viewMenuItems == {"all", "priority", "category", "date", "back"}

\* the prompts and the TaskService operations the handler of an item awaits,
\* in order, when it runs to its end (edit: of the field category)
Script(item) ==
    CASE item = "add" ->
            <<"prompt", "prompt", "getUniqueCategories", "prompt", "prompt",
              "addTask", "getAllTasks">>
      [] item \in {"viewAll", "all", "search"} -> <<"getAllTasks">>
      [] item = "edit" ->
            <<"getAllTasks", "prompt", "getTaskById", "prompt",
              "getUniqueCategories", "prompt", "updateTask", "getAllTasks">>
      [] item = "complete" -> <<"getAllTasks", "prompt", "markTaskAsComplete">>
      [] item = "remove" ->
            <<"getAllTasks", "prompt", "prompt", "removeTask", "getAllTasks">>
      [] item = "priority" -> <<"prompt", "getTasksByPriority">>
      [] item = "category" ->
            <<"getUniqueCategories", "prompt", "getTasksByCategory">>
      [] item = "date" -> <<"prompt", "getTasksSortedByDueDate">>

\* a menu item with a handler that is no menu and no exit is selected
selectItem(item) ==
    /\ \/ ui.menu = "main" /\ item \in mainMenuItems \ {"filter", "exit"}
       \/ ui.menu = "view" /\ item \in viewMenuItems \ {"back"}
    /\ ui' = [ui EXCEPT !.menu = "handler", !.item = item,
                        !.isSubMenu = (ui.menu = "view"),
                        !.script = Script(item)]
    /\ UNCHANGED <<impl, capacity, tasks, nextId, assigned, now, today, ret>>

\* Filter/Sort Tasks: the handler is showViewOptions
showViewOptions ==
    /\ ui.menu = "main"
    /\ Len(ui.stack) < MaxDepth
    /\ ui' = [ui EXCEPT !.menu = "view", !.stack = Append(ui.stack, "filter")]
    /\ UNCHANGED <<impl, capacity, tasks, nextId, assigned, now, today, ret>>

\* Back to Main Menu: the handler is showMainMenu
selectBack ==
    /\ ui.menu = "view"
    /\ Len(ui.stack) < MaxDepth
    /\ ui' = [ui EXCEPT !.menu = "main", !.stack = Append(ui.stack, "back")]
    /\ UNCHANGED <<impl, capacity, tasks, nextId, assigned, now, today, ret>>

\* Exit: confirmed, the process exits; declined, handleExit returns and the
\* displayMenu of the main menu calls no menu and returns.  The menu whose
\* handler it was (Filter/Sort Tasks or Back) then calls showMainMenu; without
\* one showMainMenu has returned to its first caller
handleExit(confirm) ==
    /\ ui.menu = "main"
    /\ ui' = IF confirm THEN [ui EXCEPT !.menu = "exited"]
             ELSE IF ui.stack = << >> THEN [ui EXCEPT !.menu = "ended"]
             ELSE [ui EXCEPT !.menu = "main",
                             !.stack = SubSeq(ui.stack, 1, Len(ui.stack) - 1)]
    /\ UNCHANGED <<impl, capacity, tasks, nextId, assigned, now, today, ret>>

\* Ctrl+C at the prompt of a menu: the catch of displayMenu exits
interrupt ==
    /\ ui.menu \in {"main", "view"}
    /\ ui' = [ui EXCEPT !.menu = "exited"]
    /\ UNCHANGED <<impl, capacity, tasks, nextId, assigned, now, today, ret>>

\* a prompt of the handler is answered, or left (Back selected, or Ctrl+C:
\* the handler returns)
answerPrompt(leave) ==
    /\ ui.menu = "handler"
    /\ ui.calls = << >>
    /\ ui.script # << >>
    /\ Head(ui.script) = "prompt"
    /\ ui' = [ui EXCEPT !.script = IF leave THEN << >> ELSE Tail(ui.script)]
    /\ UNCHANGED <<impl, capacity, tasks, nextId, assigned, now, today, ret>>

\* what the handlers pass to the operations: the task selected at the prompt
\* is a stored one (for Mark Task as Complete a pending one)
OpArgs(op) ==
    CASE op = "addTask" ->
            {<<<<"B", "u", "y", " ", "m", "i", "l", "k">>, "Medium", Work, 0>>}
      [] op \in {"getAllTasks", "getUniqueCategories"} -> {NoId}
      [] op = "getTasksByPriority" -> {"Medium"}
      [] op = "getTasksByCategory" -> {Work}
      [] op = "getTasksSortedByDueDate" -> BOOLEAN
      [] op = "markTaskAsComplete" ->
            {t.id : t \in {r \in Range(tasks) : ~r.isCompleted}}
      [] OTHER -> StoredIds

\* the handler issues an operation although the one before is in progress
startOp_NotAwaited ==
    /\ ui.menu = "handler"
    /\ ui.script # << >>
    /\ Head(ui.script) \in CoreOps
    /\ Head(ui.script) = "addTask" => Len(tasks) < capacity /\ nextId <= MaxCreated
    /\ \E arg \in OpArgs(Head(ui.script)) :
          ui' = [ui EXCEPT !.op = {[name |-> Head(ui.script), arg |-> arg]},
                           !.calls = StorageCalls(Head(ui.script), arg),
                           !.pending = ui.pending + 1]
    /\ UNCHANGED <<impl, capacity, tasks, nextId, assigned, now, today, ret>>

\* the handler awaits the next operation of its script: the operation issues
\* its first repository call
startOp ==
    /\ ui.menu = "handler"
    /\ ui.calls = << >>
    /\ ui.script # << >>
    /\ Head(ui.script) \in CoreOps
    /\ Head(ui.script) = "addTask" => Len(tasks) < capacity /\ nextId <= MaxCreated
    /\ \E arg \in OpArgs(Head(ui.script)) :
          ui' = [ui EXCEPT !.op = {[name |-> Head(ui.script), arg |-> arg]},
                           !.calls = StorageCalls(Head(ui.script), arg),
                           !.pending = ui.pending + 1]
    /\ UNCHANGED <<impl, capacity, tasks, nextId, assigned, now, today, ret>>

\* the rows after the repository call of the operation in progress
Written(call) ==
    LET op == Val(ui.op)
    IN CASE call = "save" /\ op.name = "addTask" ->
               create(tasks, Task(op.arg[1], op.arg[2], op.arg[3], op.arg[4]))
         [] call = "save" /\ op.name = "markTaskAsComplete" ->
               update(tasks, [Val(findById(tasks, op.arg))
                                 EXCEPT !.isCompleted = TRUE])
         [] call = "save" /\ op.name = "updateTask" ->
               update(tasks,
                      ObjectAssign(Val(findById(tasks, op.arg)),
                                   [NoUpdates EXCEPT
                                       !.category = {<<"H", "o", "m", "e">>}]))
         [] call = "delete" -> delete(tasks, op.arg)
         [] OTHER -> tasks

\* the handler returns after the operation: there is no task to select, to
\* search or to show
EarlyReturn(rows) ==
    \/ /\ Val(ui.op).name = "getAllTasks"
       /\ ui.item \in {"edit", "complete", "remove", "search"}
       /\ rows = << >>
    \/ /\ Val(ui.op).name = "getAllTasks"
       /\ ui.item = "complete"
       /\ \A t \in Range(rows) : t.isCompleted
    \/ /\ Val(ui.op).name = "getUniqueCategories"
       /\ ui.item = "category"
       /\ rows = << >>

\* the repository call in flight completes: the operation issues its next
\* call, or it returns to the handler, which goes on with its script, returns
\* or (Search Tasks) opens the search session
completeCall ==
    /\ ui.menu = "handler"
    /\ ui.calls # << >>
    /\ ui.pending > 0
    /\ tasks' = Written(Head(ui.calls))
    /\ nextId' = IF Len(tasks') > Len(tasks) THEN nextId + 1 ELSE nextId
    /\ assigned' = Record(tasks')
    /\ IF Tail(ui.calls) # << >>
       THEN ui' = [ui EXCEPT !.calls = Tail(ui.calls)]
       ELSE LET done == [ui EXCEPT !.calls = << >>, !.op = {},
                                   !.pending = ui.pending - 1,
                                   !.script = IF EarlyReturn(tasks') THEN << >>
                                              ELSE Tail(ui.script)]
            IN IF ui.item = "search" /\ tasks' # << >>
               THEN \E allTasks \in findAll(tasks') :
                       ui' = [done EXCEPT !.menu = "session", !.active = TRUE,
                                          !.allTasks = allTasks,
                                          !.fuse = IF ui.handler = "fuse"
                                                   THEN initializeFuseSearch(allTasks)
                                                   ELSE ui.fuse,
                                          !.searchTerm = << >>, !.typed = FALSE,
                                          !.shown = allTasks, !.rawMode = TRUE,
                                          !.listeners = ui.listeners + 1]
               ELSE ui' = done
    /\ UNCHANGED <<impl, capacity, now, today, ret>>

\* the handler has returned: displayMenu displays the menu it was selected in
returnToMenu ==
    /\ ui.menu = "handler"
    /\ ui.calls = << >>
    /\ ui.script = << >>
    /\ ui' = [ui EXCEPT !.menu = IF ui.isSubMenu THEN "view" ELSE "main",
                        !.item = "none", !.isSubMenu = FALSE]
    /\ UNCHANGED <<impl, capacity, tasks, nextId, assigned, now, today, ret>>

-----------------------------------------------------------------------------
(* SpecMenu: the menu loop of MenuHandler over the persisted store *)

MenuQueries == {<<"m">>}

NextMenu ==
    \/ \E item \in mainMenuItems \cup viewMenuItems : selectItem(item)
    \/ showViewOptions
    \/ selectBack
    \/ \E confirm \in BOOLEAN : handleExit(confirm)
    \/ interrupt
    \/ \E leave \in BOOLEAN : answerPrompt(leave)
    \/ startOp
    \/ completeCall
    \/ returnToMenu
    \/ \E key \in Keys(MenuQueries) :
          Pressed(MenuQueries, ui.searchTerm, key) /\ keypress(key)

InitMenu ==
    /\ impl = "db"
    /\ capacity = MaxMenuTasks
    /\ tasks = << >>
    /\ nextId = 1
    /\ assigned = << >>
    /\ now = 0
    /\ today = [year |-> 2024, month |-> 0, date |-> 1]
    /\ ret = [op |-> "none", arg |-> NoId, val |-> FALSE, rep |-> FALSE,
             error |-> NoError]
    /\ ui \in {Idle(h) : h \in SearchHandlers}

SpecMenu == InitMenu /\ [][NextMenu]_vars

-----------------------------------------------------------------------------
(* SpecStore: tasks are added, completed and removed; priority, category,  *)
(* due date and completion vary                                             *)

CrudPriorities == {"Low", "High"}

CrudDates == {0, MaxDate}

NextStore ==
    \/ \E p \in CrudPriorities, c \in Categories, d \in CrudDates :
          addTask("Buy milk", p, c, d)
    \/ \E id \in TaskIds : markTaskAsComplete(id)
    \/ \E id \in TaskIds : removeTask(id)

SpecStore == Init /\ [][NextStore]_vars

-----------------------------------------------------------------------------
(* Spec: SpecStore and updateTask with patches over every field, the id     *)
(* included                                                                 *)

Next ==
    \/ \E p \in CrudPriorities, c \in Categories, d \in CrudDates :
          addTask("Buy milk", p, c, d)
    \/ \E id \in TaskIds : markTaskAsComplete(id)
    \/ \E id \in TaskIds : removeTask(id)
    \/ \E id \in TaskIds, u \in Patches(KnownIds, {"Buy milk"}, CrudPriorities, Categories, CrudDates, {}) :
          updateTask(id, u)

Spec == Init /\ [][Next]_vars

-----------------------------------------------------------------------------
(* SpecClock: the clock runs; completion (set by markTaskAsComplete, reset  *)
(* by updateTask) and the timestamps vary                                  *)

NextClock ==
    \/ addTask("Buy milk", "Medium", "Work", 0)
    \/ \E id \in TaskIds : markTaskAsComplete(id)
    \/ \E id \in TaskIds : removeTask(id)
    \/ \E id \in TaskIds, u \in Patches({}, {}, {}, {}, {}, {}) : updateTask(id, u)
    \/ Tick

SpecClock == Init /\ [][NextClock]_vars

-----------------------------------------------------------------------------
(* SpecStamp: the clock runs and the patches of updateTask supply           *)
(* completion and the timestamps                                            *)

NextStamp ==
    \/ addTask("Buy milk", "Medium", "Work", 0)
    \/ \E id \in TaskIds : removeTask(id)
    \/ \E id \in TaskIds, u \in Patches({}, {}, {}, {}, {}, Timestamps) :
          updateTask(id, u)
    \/ Tick

SpecStamp == Init /\ [][NextStamp]_vars

-----------------------------------------------------------------------------
(* SpecLookup: tasks are looked up, completed and renamed by ids that are   *)
(* stored and by ids that are not                                           *)

NextLookup ==
    \/ addTask("Buy milk", "Medium", "Work", 0)
    \/ \E id \in TaskIds : removeTask(id)
    \/ \E id \in TaskIds : markTaskAsComplete(id)
    \/ \E id \in TaskIds, u \in Patches({}, Names, {}, {}, {}, {}) :
          updateTask(id, u)
    \/ \E id \in TaskIds : getTaskById(id)

SpecLookup == Init /\ [][NextLookup]_vars

-----------------------------------------------------------------------------
(* SpecFail: the calls of the repository can fail                           *)

FailArgs(op) ==
    CASE op = "addTask" -> {<<"Buy milk", "Medium", "Work", 0>>}
      [] op \in {"getAllTasks", "getUniqueCategories"} -> {NoId}
      [] op = "getTasksByPriority" -> {"Medium"}
      [] op = "getTasksByCategory" -> {"Work"}
      [] op = "getTasksSortedByDueDate" -> BOOLEAN
      [] OTHER -> TaskIds

NextFail ==
    \/ addTask("Buy milk", "Medium", "Work", 0)
    \/ \E id \in TaskIds : removeTask(id)
    \/ \E id \in TaskIds : markTaskAsComplete(id)
    \/ \E op \in CoreOps, error \in StorageErrors :
          \E arg \in FailArgs(op) :
             \E k \in DOMAIN StorageCalls(op, arg) : fails(op, arg, k, error)

SpecFail == Init /\ [][NextFail]_vars

-----------------------------------------------------------------------------
(* SpecEntry: tasks are added and edited through the prompts of TaskHandler; *)
(* names and categories are sequences of characters                         *)

\* String.prototype.trim, over the white space " "
RECURSIVE trim(_)
trim(s) ==
    IF s = << >> THEN s
    ELSE IF Head(s) = " " THEN trim(Tail(s))
    ELSE IF s[Len(s)] = " " THEN trim(SubSeq(s, 1, Len(s) - 1))
    ELSE s

startsWith(s, prefix) ==
    Len(prefix) <= Len(s) /\ SubSeq(s, 1, Len(prefix)) = prefix

\* String.prototype.replace with a string pattern: the first occurrence
replace(s, pattern, replacement) ==
    IF ~includes(s, pattern) THEN s
    ELSE LET k == CHOOSE i \in 0..(Len(s) - Len(pattern)) :
                     /\ SubSeq(s, i + 1, i + Len(pattern)) = pattern
                     /\ \A j \in 0..(i - 1) :
                           SubSeq(s, j + 1, j + Len(pattern)) # pattern
         IN SubSeq(s, 1, k) \o replacement \o SubSeq(s, k + Len(pattern) + 1, Len(s))

\* the text in front of a category that is not stored yet ("MEMO": the emoji)
CreatePrefix ==
    <<"MEMO", " ", "C", "r", "e", "a", "t", "e", " ", "n", "e", "w", " ",
      "c", "a", "t", "e", "g", "o", "r", "y", ":", " ">>

\* the choices the search prompt offers for a typed term
source(term, existingCategories) ==
    IF term = << >> THEN existingCategories
    ELSE LET termLower == toLowerCase(term)
             matches == {cat \in existingCategories :
                            includes(toLowerCase(cat), termLower)}
         IN IF (\A cat \in matches : toLowerCase(cat) # termLower)
               /\ trim(term) # << >>
            THEN matches \cup {CreatePrefix \o term}
            ELSE matches

\* the validate callback of the name and category prompts
validateNotEmpty(input) == Len(trim(input)) > 0

finalCategory(category) ==
    IF startsWith(category, CreatePrefix)
    THEN replace(category, CreatePrefix, << >>)
    ELSE category

\* what is typed at the name prompt and at the category prompt
EntryNames == {<< >>, <<" ">>, <<"B", "u", "y">>}

EntryTerms == {<< >>, <<" ">>, <<"H", "o", "m", "e">>, CreatePrefix}

handleAddTask(name, priority, term, dueDate) ==
    /\ impl = "db"
    /\ validateNotEmpty(name)
    /\ Len(tasks) < capacity
    /\ nextId <= MaxCreated
    /\ \E existingCategories \in getUniqueCategoriesRows(tasks) :
       \E category \in source(term, Range(existingCategories)) :
          /\ validateNotEmpty(category)
          /\ tasks' = create(tasks, Task(name, priority, finalCategory(category),
                                         dueDate))
          /\ ret' = Call("handleAddTask", <<name, term, category>>,
                         {tasks'[Len(tasks')]})
    /\ nextId' = nextId + 1
    /\ assigned' = Record(tasks')
    /\ UNCHANGED <<ui, impl, capacity, now, today>>

EditFields == {"name", "priority", "category", "isCompleted"}

\* the patches getFieldUpdates can return for a field, for what is typed or
\* selected at its prompt
getFieldUpdates(field, name, priority, term, isCompleted) ==
    CASE field = "name" ->
            IF validateNotEmpty(name) THEN {[NoUpdates EXCEPT !.name = {name}]}
            ELSE {}
      [] field = "priority" -> {[NoUpdates EXCEPT !.priority = {priority}]}
      [] field = "category" ->
            {[NoUpdates EXCEPT !.category = {finalCategory(category)}] :
                category \in {c \in UNION {source(term, Range(existingCategories)) :
                                  existingCategories \in getUniqueCategoriesRows(tasks)} :
                                 validateNotEmpty(c)}}
      [] field = "isCompleted" -> {[NoUpdates EXCEPT !.isCompleted = {isCompleted}]}

handleEditTask(taskId, field, name, priority, term, isCompleted) ==
    /\ impl = "db"
    /\ taskId \in StoredIds
    /\ \E updates \in getFieldUpdates(field, name, priority, term, isCompleted) :
          LET task == ObjectAssign(Val(findById(tasks, taskId)), updates)
          IN /\ tasks' = update(tasks, task)
             /\ ret' = Call("handleEditTask", <<taskId, field>>,
                            findById(tasks', task.id))
    /\ assigned' = Record(tasks')
    /\ UNCHANGED <<ui, impl, capacity, nextId, now, today>>

NextEntry ==
    \/ \E name \in EntryNames, term \in EntryTerms :
          handleAddTask(name, "Medium", term, 0)
    \/ \E id \in TaskIds, field \in EditFields, name \in EntryNames,
          term \in EntryTerms, isCompleted \in BOOLEAN :
          handleEditTask(id, field, name, "High", term, isCompleted)
    \/ \E id \in TaskIds : removeTask(id)

SpecEntry == Init /\ [][NextEntry]_vars

-----------------------------------------------------------------------------
(* SpecFilter: the category (in two spellings) and the completion vary; the  *)
(* category and completion filters and the category list run               *)

NextFilter ==
    \/ \E c \in FilterCategories : addTask("Buy milk", "Medium", c, 0)
    \/ \E id \in TaskIds : markTaskAsComplete(id)
    \/ \E id \in TaskIds : removeTask(id)
    \/ \E id \in TaskIds, u \in Patches({}, {}, {}, FilterCategories, {}, {}) :
          updateTask(id, u)
    \/ \E c \in FilterCategories : getTasksByCategory(c)
    \/ getUniqueCategories
    \/ \E b \in BOOLEAN : getTasksByCompletion(b)

SpecFilter == Init /\ [][NextFilter]_vars

-----------------------------------------------------------------------------
(* SpecQuery: the due dates vary; the sort and the range query run *)

InitQuery == InitStore(MaxQueryTasks)

NextQuery ==
    \/ \E d \in DueDates : addTask("Buy milk", "Medium", "Work", d)
    \/ \E id \in TaskIds : removeTask(id)
    \/ \E a \in BOOLEAN : getTasksSortedByDueDate(a)
    \/ \E s \in DueDates, e \in DueDates : getTasksByDueDateRange(s, e)

SpecQuery == InitQuery /\ [][NextQuery]_vars

-----------------------------------------------------------------------------
(* Dates: a Date at local midnight is its day number, counted from 1 January *)
(* of the first modelled year                                               *)

Years == {2023, 2024}

FirstYear == CHOOSE y \in Years : \A z \in Years : y <= z

IsLeap(y) == (y % 4 = 0 /\ y % 100 # 0) \/ y % 400 = 0

DaysInYear(y) == IF IsLeap(y) THEN 366 ELSE 365

DaysInMonth(y, m) ==
    IF m = 1 THEN (IF IsLeap(y) THEN 29 ELSE 28)
    ELSE IF m \in {3, 5, 8, 10} THEN 30 ELSE 31

RECURSIVE DayFromYear(_)
DayFromYear(y) == IF y <= FirstYear THEN 0 ELSE DayFromYear(y - 1) + DaysInYear(y - 1)

RECURSIVE DayFromMonth(_, _)
DayFromMonth(y, m) == IF m = 0 THEN 0 ELSE DayFromMonth(y, m - 1) + DaysInMonth(y, m - 1)

\* a month outside 0..11 wraps around inside the year
MakeDay_NoCarry(year, month, date) ==
    DayFromYear(year) + DayFromMonth(year, month % 12) + date - 1

\* ECMAScript MakeDay: a month outside 0..11 carries into the year, a date
\* outside the month carries into the following months
MakeDay(year, month, date) ==
    LET ym == year + (month \div 12)
        mn == month % 12
    IN DayFromYear(ym) + DayFromMonth(ym, mn) + date - 1

CalendarDays ==
    {[year |-> y, month |-> m, date |-> d] :
        y \in Years, m \in 0..11, d \in 1..31} 

Periods == {"today", "week", "month"}

\* a month taken as 30 days
endDate_ThirtyDays(period) ==
    CASE period = "today" -> MakeDay(today.year, today.month, today.date + 1)
      [] period = "week" -> MakeDay(today.year, today.month, today.date + 7)
      [] period = "month" -> MakeDay(today.year, today.month, today.date + 30)

\* FilterHandler.handleFilterByDueDate: today at local midnight, the end date by
\* setDate / setMonth on a copy of it, then the range query
endDate(period) ==
    CASE period = "today" -> MakeDay(today.year, today.month, today.date + 1)
      [] period = "week" -> MakeDay(today.year, today.month, today.date + 7)
      [] period = "month" -> MakeDay(today.year, today.month + 1, today.date)

handleFilterByDueDate(period) ==
    /\ impl = "db"
    /\ LET start == MakeDay(today.year, today.month, today.date)
           end == endDate(period)
       IN \E r \in findByDueDateRange(tasks, start, end) :
             ret' = Call("handleFilterByDueDate", period,
                         [start |-> start, end |-> end, tasks |-> r])
    /\ UNCHANGED <<ui, impl, capacity, tasks, nextId, assigned, now, today>>

InitDate ==
    /\ impl = "db"
    /\ capacity = 0
    /\ tasks = << >>
    /\ nextId = 1
    /\ assigned = << >>
    /\ now = 0
    /\ today \in {t \in CalendarDays : t.date <= DaysInMonth(t.year, t.month)}
    /\ ret = [op |-> "none", arg |-> NoId, val |-> FALSE, rep |-> FALSE,
             error |-> NoError]
    /\ ui = Idle("fuse")

NextDate == \E p \in Periods : handleFilterByDueDate(p)

SpecDate == InitDate /\ [][NextDate]_vars

-----------------------------------------------------------------------------
(* SpecBucket: the due-date buckets over stored tasks that are due around    *)
(* the ends of the buckets                                                  *)

\* local dates at the end of a long month, before the turn of the year, on a
\* leap day and at the start of the shortest month
BucketTodays ==
    {[year |-> 2024, month |-> 0, date |-> 31],
     [year |-> 2023, month |-> 11, date |-> 20],
     [year |-> 2024, month |-> 1, date |-> 29],
     [year |-> 2023, month |-> 1, date |-> 1]}

\* days from today to the due date of a task: yesterday, today, tomorrow,
\* around the end of the week and around the end of the month
BucketOffsets == {-1, 0, 1, 6, 7, 27, 28, 30, 31}

\* the results handleFilterByDueDate can display for a period
DueDateBucket(period) ==
    findByDueDateRange(tasks, MakeDay(today.year, today.month, today.date),
                       endDate(period))

InitBucket ==
    /\ impl = "db"
    /\ capacity = MaxTasks
    /\ tasks = << >>
    /\ nextId = 1
    /\ assigned = << >>
    /\ now = 0
    /\ today \in BucketTodays
    /\ ret = [op |-> "none", arg |-> NoId, val |-> FALSE, rep |-> FALSE,
             error |-> NoError]
    /\ ui = Idle("fuse")

NextBucket ==
    \/ \E k \in BucketOffsets :
          addTask("Buy milk", "Medium", "Work",
                  MakeDay(today.year, today.month, today.date) + k)
    \/ \E p \in Periods : handleFilterByDueDate(p)

SpecBucket == InitBucket /\ [][NextBucket]_vars

-----------------------------------------------------------------------------
(* SpecDue: validateDueDate is applied to well-formed inputs at several      *)
(* local dates, times of day and timezone offsets (today.hour: the hour of   *)
(* the local day; today.offset: the hours local time is ahead of UTC).       *)
(* Instants are in hours since the start (UTC) of the first year             *)

HoursPerDay == 24

\* hours of the local time of day, and hours by which local time is ahead of
\* UTC
Hours == {0, 12, 23}

Offsets == {-12, -5, 0, 1, 14}

\* the inputs that pass /^\d{4}-\d{2}-\d{2}$/, by the numbers their digits
\* denote
DueMonths == {0, 1, 2, 3, 6, 12, 13}

DueDays == {0, 1, 14, 15, 28, 29, 30, 31, 32}

DueInputs == [year : Years, month : DueMonths, day : DueDays]

\* new Date("YYYY-MM-DD"): the UTC midnight of the date, or NaN (the empty
\* set).  A day of 29..31 that the month does not have is rolled over into
\* the next month by some engines (V8) and is NaN in others
DateParse(input) ==
    IF input.month \notin 1..12 \/ input.day \notin 1..31 THEN {{}}
    ELSE {{MakeDay(input.year, input.month - 1, input.day) * HoursPerDay}}
         \cup IF input.day > DaysInMonth(input.year, input.month - 1)
               THEN {{}} ELSE {}

\* new Date(): the instant of the hour today.hour of the local day, in a zone
\* today.offset hours ahead of UTC
NewDate ==
    MakeDay(today.year, today.month, today.date) * HoursPerDay
       + today.hour - today.offset

\* setHours(0, 0, 0, 0): the instant of the local midnight before the instant
setHoursZero(instant, offset) ==
    ((instant + offset) \div HoursPerDay) * HoursPerDay - offset

\* new Date(year, month, 0).getDate()
monthDays(year, month) ==
    IF month = 0 THEN 31
    ELSE DaysInMonth(year + ((month - 1) \div 12), (month - 1) % 12)

Valid == [valid |-> TRUE, message |-> ""]

Invalid(message) == [valid |-> FALSE, message |-> message]

validate(input, inputDate) ==
    IF inputDate = {} THEN Invalid("Please enter a valid date")
    ELSE IF Val(inputDate) < setHoursZero(NewDate, today.offset)
    THEN Invalid("Due date cannot be in the past")
    ELSE IF input.month < 1 \/ input.month > 12
    THEN Invalid("Month must be between 1 and 12")
    ELSE IF input.day < 1 \/ input.day > monthDays(input.year, input.month)
    THEN Invalid("Day must be between 1 and monthDays for the selected month")
    ELSE Valid

validateDueDate(input) ==
    /\ \E inputDate \in DateParse(input) :
          ret' = Call("validateDueDate", input, validate(input, inputDate))
    /\ UNCHANGED <<ui, impl, capacity, tasks, nextId, assigned, now, today>>

\* local dates at the turn of a year, around a leap day and inside a month
DueTodays ==
    {[year |-> 2024, month |-> 0, date |-> 1],
     [year |-> 2024, month |-> 1, date |-> 29],
     [year |-> 2024, month |-> 2, date |-> 1],
     [year |-> 2023, month |-> 5, date |-> 15]}

InitDue ==
    /\ impl = "db"
    /\ capacity = 0
    /\ tasks = << >>
    /\ nextId = 1
    /\ assigned = << >>
    /\ now = 0
    /\ today \in {[year |-> t.year, month |-> t.month, date |-> t.date,
                    hour |-> h, offset |-> o] :
                      t \in DueTodays, h \in Hours, o \in Offsets}
    /\ ret = [op |-> "none", arg |-> NoId, val |-> FALSE, rep |-> FALSE,
             error |-> NoError]
    /\ ui = Idle("fuse")

NextDue == \E input \in DueInputs : validateDueDate(input)

SpecDue == InitDue /\ [][NextDue]_vars

-----------------------------------------------------------------------------
(* Properties *)

Position(id) == IndexOf(tasks, id)

AllPatches == Patches(KnownIds, Names, Priority, Categories, DueDates, Timestamps)

\* the step is a call of the operation op (the clock does not move in a call)
Calls(op) == ret'.op = op /\ now' = now

NoTies == \A i, j \in DOMAIN tasks : tasks[i].dueDate = tasks[j].dueDate => i = j

\* C1: no two stored tasks have the same id, and an id once assigned to a task
\* is never assigned to a different task (checked under Spec).
C1_UniqueIdNeverReassigned ==
    /\ \A i, j \in DOMAIN tasks : tasks[i].id = tasks[j].id => i = j
    /\ \A t \in Range(tasks) : assigned[t.id] = t.serial

\* C2: updateTask(id, patch) on an existing task leaves every field of that
\* task that the patch does not supply (updatedAt apart) as it was, and leaves
\* every other stored task unchanged (checked under Spec).
C2_PartialUpdate ==
    [][\A id \in TaskIds :
          (Calls("updateTask") /\ ret'.arg = id /\ findById(tasks, id) # {}) =>
             \A u \in AllPatches :
                updateTask(id, u) =>
                   /\ findById(tasks', id) # {}
                   /\ \A f \in (DataColumns \cup {"id"}) \ (Supplied(u) \cup {"updatedAt"}) :
                         Val(findById(tasks', id))[f] = Val(findById(tasks, id))[f]
                   /\ \A j \in TaskIds \ {id} :
                         findById(tasks', j) = findById(tasks, j)]_vars

\* C3: markTaskAsComplete(id) called twice in succession on an existing task
\* returns true both times, the task is completed after the first call, and the
\* second call changes no field of any task (checked under SpecClock).
C3_IdempotentComplete ==
    [][(ret.op = "markTaskAsComplete" /\ ret.val = TRUE
          /\ Calls("markTaskAsComplete") /\ ret'.arg = ret.arg) =>
             /\ \E t \in Range(tasks) : t.id = ret.arg /\ t.isCompleted
             /\ ret'.val = TRUE
             /\ tasks' = tasks]_vars

\* C3 witness: a second markTaskAsComplete of the same stored task has returned
\* true at a time later than the task's last write.
C3_Witness ==
    /\ ret.op = "markTaskAsComplete" /\ ret.rep /\ ret.val = TRUE
    /\ impl = "db"
    /\ \E t \in Range(tasks) : t.id = ret.arg /\ t.isCompleted /\ t.updatedAt < now
    /\ Len(tasks) = 2

\* C4: removeTask(id) returns true exactly when a task with that id was stored;
\* afterwards no stored task has that id and every other task is unchanged;
\* when no task had the id the collection is unchanged (checked under
\* SpecStore).
C4_Remove ==
    [][\A id \in TaskIds : (Calls("removeTask") /\ ret'.arg = id) =>
          /\ ret'.val = (id \in StoredIds)
          /\ findById(tasks', id) = {}
          /\ \A j \in TaskIds \ {id} : findById(tasks', j) = findById(tasks, j)
          /\ (id \notin StoredIds => tasks' = tasks)]_vars

\* C4 witness: a task was removed from among two, and the repeated removeTask of
\* its id has returned false.
C4_Witness ==
    /\ ret.op = "removeTask" /\ ret.rep /\ ret.val = FALSE
    /\ ret.arg \in DOMAIN assigned
    /\ Len(tasks) = 1

\* C5: addTask adds exactly one task, which carries the supplied name,
\* priority, category and dueDate and is not completed, and leaves every
\* previously stored task unchanged (checked under SpecStore).
C5_Add ==
    [][Calls("addTask") =>
          /\ Len(tasks') = Len(tasks) + 1
          /\ SubSeq(tasks', 1, Len(tasks)) = tasks
          /\ LET new == tasks'[Len(tasks')]
             IN /\ new.name = ret'.arg[1]
                /\ new.priority = ret'.arg[2]
                /\ new.category = ret'.arg[3]
                /\ new.dueDate = ret'.arg[4]
                /\ new.isCompleted = FALSE
                /\ ret'.val = {new}]_vars

\* C5 witness: a task was added to a store that held a completed task with
\* another priority, category and due date.
C5_Witness ==
    /\ ret.op = "addTask"
    /\ Len(tasks) = 2
    /\ tasks[1].isCompleted /\ ~tasks[2].isCompleted
    /\ tasks[1].priority # tasks[2].priority
    /\ tasks[1].category # tasks[2].category
    /\ tasks[1].dueDate # tasks[2].dueDate

\* s holds every task of the set S exactly once and nothing else
Lists(s, S) ==
    /\ Range(s) = S
    /\ \A i, j \in DOMAIN s : s[i] = s[j] => i = j

\* C6: getTasksByDueDateRange(start, end) returns exactly the stored tasks whose
\* dueDate d satisfies start <= d < end (checked under SpecQuery).
C6_RangeHalfOpen ==
    ret.op = "getTasksByDueDateRange" =>
        Lists(ret.val, {t \in Range(tasks) :
                          ret.arg[1] <= t.dueDate /\ t.dueDate < ret.arg[2]})

\* C6 witness: the range query ran on a store with a task due exactly at start
\* and a task due exactly at end.
C6_Witness ==
    /\ ret.op = "getTasksByDueDateRange"
    /\ ret.arg[1] < ret.arg[2]
    /\ \E t \in Range(tasks) : t.dueDate = ret.arg[1]
    /\ \E t \in Range(tasks) : t.dueDate = ret.arg[2]

\* C7: the bucket filter queries the range from today's midnight to 1 day, 7
\* days or one calendar month later; the month range spans the length of the
\* current month, between 28 and 31 days (checked under SpecDate).
C7_BucketRange ==
    ret.op = "handleFilterByDueDate" =>
        LET span == ret.val.end - ret.val.start
        IN /\ ret.val.start = DayFromYear(today.year)
                                + DayFromMonth(today.year, today.month)
                                + today.date - 1
           /\ ret.arg = "today" => span = 1
           /\ ret.arg = "week" => span = 7
           /\ ret.arg = "month" =>
                 /\ 28 <= span /\ span <= 31
                 /\ span = DaysInMonth(today.year, today.month)

\* C7 witness: the month bucket was computed on 31 January, when the following
\* month has no day 31.
C7_Witness ==
    /\ ret.op = "handleFilterByDueDate"
    /\ ret.arg = "month"
    /\ today.month = 0 /\ today.date = 31
    /\ ret.val.end - ret.val.start = 31

\* C8: getTasksSortedByDueDate(ascending) returns every stored task exactly
\* once, with due dates non-decreasing when ascending and non-increasing
\* otherwise (checked under SpecQuery).
C8_SortedPermutation ==
    ret.op = "getTasksSortedByDueDate" =>
        /\ Len(ret.val) = Len(tasks)
        /\ Lists(ret.val, Range(tasks))
        /\ \A i, j \in DOMAIN ret.val :
              i < j => IF ret.arg THEN ret.val[i].dueDate <= ret.val[j].dueDate
                                  ELSE ret.val[i].dueDate >= ret.val[j].dueDate

\* C8 witness: a descending sort of three tasks stored in another order.
C8_Witness ==
    /\ ret.op = "getTasksSortedByDueDate"
    /\ ret.arg = FALSE
    /\ Len(tasks) = 3
    /\ tasks[1].dueDate < tasks[3].dueDate /\ tasks[3].dueDate < tasks[2].dueDate

\* C9: when no two stored tasks share a due date, the reverse of the result of
\* getTasksSortedByDueDate in one direction is the result in the other
\* direction (checked under SpecQuery).
C9_ReverseRoundTrip ==
    (ret.op = "getTasksSortedByDueDate" /\ NoTies) =>
        SortResults(~ret.arg) = {Reverse(ret.val)}

\* C9 witness: an ascending sort of three tasks with three different due dates.
C9_Witness ==
    /\ ret.op = "getTasksSortedByDueDate"
    /\ ret.arg = TRUE
    /\ NoTies
    /\ Len(tasks) = 3
    /\ ret.val # tasks

\* C10: in the result of getTasksSortedByDueDate, in either direction, two
\* tasks with the same due date keep their stored (insertion) order (checked
\* under SpecQuery).
C10_StableSort ==
    ret.op = "getTasksSortedByDueDate" =>
        \A i, j \in DOMAIN ret.val :
            (i < j /\ ret.val[i].dueDate = ret.val[j].dueDate) =>
                Position(ret.val[i].id) < Position(ret.val[j].id)

\* C11: getUniqueCategories returns each category carried by at least one
\* stored task exactly once, and no category that no stored task carries
\* (checked under SpecFilter).
C11_UniqueCategories ==
    ret.op = "getUniqueCategories" =>
        Lists(ret.val, {t.category : t \in Range(tasks)})

\* C11 witness: the category list was read when the two stored tasks share one
\* category, after a third task had been created and removed.
C11_Witness ==
    /\ ret.op = "getUniqueCategories"
    /\ Len(tasks) = 2
    /\ tasks[1].category = tasks[2].category
    /\ Len(ret.val) = 1
    /\ nextId > MaxTasks + 1

\* C12: getTasksByCompletion(b) returns exactly the stored tasks whose
\* isCompleted is b; called right after a successful markTaskAsComplete(id) it
\* returns the task for b = true and does not return it for b = false (checked
\* under SpecFilter).
C12_CompletionPartition ==
    [][Calls("getTasksByCompletion") =>
          /\ Lists(ret'.val, {t \in Range(tasks) : t.isCompleted = ret'.arg})
          /\ (ret.op = "markTaskAsComplete" /\ ret.val = TRUE) =>
                ((\E t \in Range(ret'.val) : t.id = ret.arg) <=> ret'.arg = TRUE)]_vars

\* C12 witness: the pending tasks were listed while one of the two stored tasks
\* is completed and the other is not.
C12_Witness ==
    /\ ret.op = "getTasksByCompletion"
    /\ ret.arg = FALSE
    /\ Len(tasks) = 2
    /\ \E t \in Range(tasks) : t.isCompleted
    /\ Len(ret.val) = 1

\* C13: getTasksByCategory(c) returns exactly the stored tasks whose category
\* equals c ignoring letter case, in both implementations (checked under
\* SpecFilter).
C13_CategoryIgnoresCase ==
    ret.op = "getTasksByCategory" =>
        Lists(ret.val, {t \in Range(tasks) :
                          toLowerCase(t.category) = toLowerCase(ret.arg)})

\* C19: no call of updateTask, whatever its patch supplies, and no call of
\* markTaskAsComplete changes the id of a stored task; the stored ids are the
\* same before and after the call (checked under Spec).
C19_IdImmutable ==
    [][(Calls("updateTask") \/ Calls("markTaskAsComplete")) =>
          /\ Len(tasks') = Len(tasks)
          /\ \A i \in DOMAIN tasks : tasks'[i].id = tasks[i].id
          /\ StoredIds' = StoredIds]_vars

\* C20: every stored task of the persisted store has updatedAt >= createdAt
\* (checked under SpecStamp).
C20_UpdatedNotBeforeCreated ==
    impl = "db" => \A t \in Range(tasks) : t.updatedAt >= t.createdAt

\* C14: while the search term has fewer than 2 characters, the tasks
\* displayed are all the tasks of the session (checked under SpecSearch).
C14_ShortQueryReturnsAll ==
    (ui.active /\ Len(ui.searchTerm) < minMatchCharLength) =>
        Lists(ui.shown, Range(ui.allTasks))

\* C15: while the search term is empty, the tasks displayed are the tasks read
\* at the start of the session, in the same order, also after characters were
\* typed and deleted again (checked under SpecSession).
C15_EmptyQueryReturnsSnapshot ==
    (ui.active /\ ui.searchTerm = << >>) => ui.shown = ui.allTasks

\* C15 witness: a session over two tasks in which a term was typed and deleted
\* again with backspace, in the handler that searches the index.
C15_Witness ==
    /\ ui.active /\ ui.handler = "fuse"
    /\ ui.searchTerm = << >> /\ ui.typed
    /\ Len(ui.allTasks) = 2

\* the term is a part of the text with two neighbouring characters exchanged
Transposed(text, term) ==
    \E k \in 1..(Len(term) - 1) :
        /\ term[k] # term[k + 1]
        /\ includes(text, [i \in DOMAIN term |-> IF i = k THEN term[k + 1]
                                                 ELSE IF i = k + 1 THEN term[k]
                                                 ELSE term[i]])

\* C16: with a term of at least 2 characters the fuzzy search displays every
\* task whose name contains the term, every task whose name contains the term
\* up to a small typo (two neighbouring letters exchanged, as in "mlik" for
\* "Buy milk"), and no task none of whose name, category or priority matches
\* the term within the threshold (checked under SpecSearch).
C16_FuzzyMatches ==
    (ui.active /\ ui.handler = "fuse" /\ Len(ui.searchTerm) >= minMatchCharLength) =>
        \A i \in DOMAIN ui.allTasks :
            LET task == ui.allTasks[i]
                term == toLowerCase(ui.searchTerm)
            IN /\ includes(toLowerCase(task.name), term) => task \in Range(ui.shown)
               /\ Transposed(toLowerCase(task.name), term) => task \in Range(ui.shown)
               /\ task \in Range(ui.shown) =>
                     \E text \in {task.name, task.category, PriorityText(task.priority)} :
                         bitapErrors(toLowerCase(text), term) * 10
                             <= thresholdTenths * Len(term)

\* C17: during a search session the tasks read at its start and the index
\* built from them do not change and every task displayed is one of them,
\* whatever is stored meanwhile; a session that starts reads all stored tasks,
\* builds the index from them and displays them (checked under SpecSession).
C17_IndexPerSession ==
    [][/\ (ui.active /\ ui'.active) =>
             /\ ui'.allTasks = ui.allTasks
             /\ ui'.fuse = ui.fuse
             /\ Range(ui'.shown) \subseteq Range(ui.allTasks)
       /\ (~ui.active /\ ui'.active) =>
             /\ ui'.allTasks \in findAll(tasks)
             /\ ui'.handler = "fuse" => ui'.fuse = initializeFuseSearch(ui'.allTasks)
             /\ ui'.searchTerm = << >>
             /\ ui'.shown = ui'.allTasks]_vars

\* C17 witness: a session of the handler that searches the index displays, for
\* a term of 3 characters, a task that has been completed in the store since
\* the session started, next to a stored task the session has not read.
C17_Witness ==
    /\ ui.active /\ ui.handler = "fuse"
    /\ ui.searchTerm \in SessionQueries
    /\ \E t \in Range(ui.shown) :
          /\ ~t.isCompleted
          /\ \E s \in Range(tasks) : s.id = t.id /\ s.isCompleted
    /\ \E s \in Range(tasks) : \A t \in Range(ui.allTasks) : t.id # s.id

\* C18: when the search term is a status word, "completed" or "pending", every
\* task of the session with that status is displayed (checked under
\* SpecSearch).
C18_StatusSearchable ==
    (ui.active /\ ui.searchTerm \in {StatusText(TRUE), StatusText(FALSE)}) =>
        \A t \in Range(ui.allTasks) :
            StatusText(t.isCompleted) = ui.searchTerm => t \in Range(ui.shown)

\* C21: updateTask never stores a createdAt or an updatedAt that its patch
\* supplies: the createdAt of every stored task stays as it was, and its
\* updatedAt stays as it was or becomes the time of the storage clock (checked
\* under SpecStamp).
C21_TimestampsNotSettable ==
    [][Calls("updateTask") =>
          \A i \in DOMAIN tasks :
             /\ tasks'[i].createdAt = tasks[i].createdAt
             /\ tasks'[i].updatedAt \in {tasks[i].updatedAt, now}]_vars

\* C22: for an id that no stored task has, getTaskById and updateTask return
\* null (the empty set), markTaskAsComplete returns false, no error is raised
\* and the stored collection is unchanged (checked under SpecLookup, where no
\* storage call fails).
C22_AbsenceIsNormal ==
    [][(/\ \E op \in {"getTaskById", "updateTask", "markTaskAsComplete"} :
             Calls(op)
        /\ ret'.arg \notin StoredIds)
       => /\ tasks' = tasks
          /\ ret'.error = NoError
          /\ ret'.val = IF ret'.op = "markTaskAsComplete" THEN FALSE ELSE {}]_vars

\* a task is stored and updateTask was called with an id that no task has
C22_Witness ==
    /\ ret.op = "updateTask"
    /\ tasks # << >>
    /\ ret.arg \notin StoredIds
    /\ ret.val = {}

\* C23: when a storage call of a core operation fails, the operation raises
\* that same error to its caller, returns no result in its place, and issues
\* no storage call after the failed one, which it issued once (checked under
\* SpecFail).
C23_FailureRaisedUnchanged ==
    [][("failure" \in DOMAIN ret' /\ ret'.op \in CoreOps)
       => /\ ret'.error = ret'.failure.error
          /\ "val" \notin DOMAIN ret'
          /\ Len(ret'.issued) = ret'.failure.call
          /\ tasks' = tasks]_vars

\* markTaskAsComplete found the task and its save failed: the task is still
\* pending and the caller got the error
C23_Witness ==
    /\ ret.op = "markTaskAsComplete"
    /\ "failure" \in DOMAIN ret
    /\ ret.failure.call = 2
    /\ ret.error \in StorageErrors
    /\ \E t \in Range(tasks) : t.id = ret.arg /\ ~t.isCompleted

\* the input names a day of the calendar
IsRealDate(input) ==
    /\ input.month \in 1..12
    /\ input.day \in 1..DaysInMonth(input.year, input.month - 1)

\* C24: validateDueDate accepts a well-formed input exactly when it names a
\* real date that is not earlier than the current local date, whatever the
\* time of day and the timezone offset (checked under SpecDue).
C24_AcceptsFromTodayOn ==
    ret.op = "validateDueDate"
    => (ret.val.valid <=>
           /\ IsRealDate(ret.arg)
           /\ MakeDay(ret.arg.year, ret.arg.month - 1, ret.arg.day)
                 >= MakeDay(today.year, today.month, today.date))

\* C25: every task stored through the prompts of handleAddTask and
\* handleEditTask has a name and a category that are not the empty string
\* (checked under SpecEntry).
C25_NameAndCategoryNotEmpty ==
    \A t \in Range(tasks) : t.name # << >> /\ t.category # << >>

Wider(period) ==
    CASE period = "today" -> {"week", "month"}
      [] period = "week" -> {"month"}
      [] period = "month" -> {}

\* C29: the tasks handleFilterByDueDate returns for 'today' are among those it
\* returns for 'week', and those for 'week' among those for 'month', for the
\* same current date and stored collection (checked under SpecBucket).
C29_BucketsNested ==
    ret.op = "handleFilterByDueDate"
    => \A p \in Wider(ret.arg) : \A r \in DueDateBucket(p) :
          Range(ret.val.tasks) \subseteq Range(r)

\* the week was filtered: it holds a task that is not due today, and a stored
\* task of the month is outside it
C29_Witness ==
    /\ ret.op = "handleFilterByDueDate"
    /\ ret.arg = "week"
    /\ \E r \in DueDateBucket("today") :
          Range(ret.val.tasks) \ Range(r) # {}
    /\ \E r \in DueDateBucket("month") :
          Range(r) \ Range(ret.val.tasks) # {}

\* C30: every row of the table that ConsoleUI displays with a menu is a task
\* that is in storage, with its current field values (checked under
\* SpecConsole).
C30_TableIsCurrent ==
    \A table \in ui.table : Range(table) \subseteq Range(tasks)

\* C26: at most one repository call is in flight at any time (checked under
\* SpecMenu).
C26_OneCallInFlight == ui.pending <= 1

\* markTaskAsComplete has read the task and its save is in flight
C26_Witness ==
    /\ ui.pending = 1
    /\ ui.op # {}
    /\ Val(ui.op).name = "markTaskAsComplete"
    /\ ui.calls = <<"save">>

\* C28: showMainMenu never returns to its first caller: the menu loop ends
\* only by process.exit (checked under SpecMenu).
C28_MenuLoopNeverEnds == ui.menu # "ended"

====
